---------------------------- MODULE Spec2Model ----------------------------
(***************************************************************************)
(* Model of the render pipeline of app.py (AiVantu): the /generate_video   *)
(* request handler, its script segmentation, per-character audio           *)
(* resolution, the bitrate lookup of render_video_multi_characters and the *)
(* life cycle of the UserVideo job record.                                 *)
(*                                                                         *)
(* Strings are sequences of one-character strings, so that find, strip,    *)
(* lower and re.split are computed position by position as Python does.    *)
(* Python indices are 0-based; Find and Slice keep that convention.        *)
(***************************************************************************)
EXTENDS Integers, Sequences, FiniteSets, TLC

VARIABLES
    pc,               \* position of generate_video in its body
    request,          \* the form data and files of the HTTP request
    tts_rejects_blank,\* the speech service refuses text with nothing to speak
    video,            \* the in-memory UserVideo object of the handler
    db,               \* the UserVideo row as last committed
    image_rel_paths,  \* list of image references, one per slot
    bg_music_rel,     \* background music reference or None
    char_voice_files, \* accepted character voice uploads, compacted
    char_texts,       \* per-slot text produced by the segmentation
    seg_mode,         \* which branch of the segmentation ran
    audio_rel_paths,  \* per-slot audio references built so far
    tts_calls,        \* every call made to gTTS: <<slot, text, succeeded>>
    bitrate,          \* bitrate chosen by render_video_multi_characters
    response,         \* HTTP status returned, 0 while the handler runs
    body,             \* JSON body returned with it
    media,            \* the durations of the audio files the render reads
    dur,              \* render loop: duration passed to the clip synthesizer
    clips,            \* render loop: the clips built so far, in build order
    final_duration,   \* duration of the concatenated timeline
    final_audio,      \* audio of the timeline: narration and background
    bg_logged,        \* the background mixing raised and was logged
    render_error      \* the step of the render that raised, "none" if none

vars == <<pc, request, tts_rejects_blank, video, db, image_rel_paths,
          bg_music_rel, char_voice_files, char_texts, seg_mode,
          audio_rel_paths, tts_calls, bitrate, response, body,
          media, dur, clips, final_duration, final_audio, bg_logged, render_error>>

\* the variables of render_video_multi_characters
render_vars == <<media, dur, clips, final_duration, final_audio, bg_logged, render_error>>

\* the variables of generate_video other than its position
handler_vars == <<request, tts_rejects_blank, video, db, image_rel_paths,
                  bg_music_rel, char_voice_files, char_texts, seg_mode,
                  audio_rel_paths, tts_calls, bitrate, response, body>>

----------------------------------------------------------------------------
(* Bounds of the model *)

\* longest list of uploaded character files in a request
MaxChars == 3
\* longest list of uploaded character voice files in a request
MaxVoices == 2
\* largest number of slots for which the segmentation is explored on its own
MaxSlots == 3
\* largest number of pieces a free-form script is assembled from
MaxPieces == 3

----------------------------------------------------------------------------
(* Python string primitives *)

None == <<"None">>

Min(S) == CHOOSE x \in S : \A y \in S : x <= y
Max(S) == CHOOSE x \in S : \A y \in S : x >= y

\* str.isspace for the characters of the model's alphabet
IsSpace(c) == c \in {" ", "\n", "\t"}

\* the characters after which the sentence pattern (?<=[.!?]) matches
IsSentenceEnd(c) == c \in {".", "!", "?"}

UpperLetters == <<"A","B","C","D","E","F","G","H","I","J","K","L","M",
                  "N","O","P","Q","R","S","T","U","V","W","X","Y","Z">>
LowerLetters == <<"a","b","c","d","e","f","g","h","i","j","k","l","m",
                  "n","o","p","q","r","s","t","u","v","w","x","y","z">>

\* str.lower
LowerChar(c) ==
    IF \E k \in 1..Len(UpperLetters) : UpperLetters[k] = c
    THEN LowerLetters[CHOOSE k \in 1..Len(UpperLetters) : UpperLetters[k] = c]
    ELSE c
Lower(s) == [k \in 1..Len(s) |-> LowerChar(s[k])]

\* str.upper, used only to build request inputs in upper case
UpperChar(c) ==
    IF \E k \in 1..Len(LowerLetters) : LowerLetters[k] = c
    THEN UpperLetters[CHOOSE k \in 1..Len(LowerLetters) : LowerLetters[k] = c]
    ELSE c

\* m occurs in s at 0-based offset k
MatchAt(s, m, k) ==
    /\ k >= 0
    /\ k + Len(m) <= Len(s)
    /\ \A j \in 1..Len(m) : s[k + j] = m[j]

\* s.find(m, start): lowest 0-based index >= start, or -1
Find(s, m, start) ==
    LET hits == {k \in start..(Len(s) - Len(m)) : MatchAt(s, m, k)}
    IN  IF hits = {} THEN -1 ELSE Min(hits)

\* m in s
Contains(s, m) == Find(s, m, 0) # -1

\* s[a:b] for 0 <= a, 0 <= b <= len(s)
Slice(s, a, b) == SubSeq(s, a + 1, b)

\* s.strip()
Strip(s) ==
    LET keep == {k \in 1..Len(s) : ~IsSpace(s[k])}
    IN  IF keep = {} THEN <<>> ELSE SubSeq(s, Min(keep), Max(keep))

\* str(n) for n >= 0
Digits == <<"0","1","2","3","4","5","6","7","8","9">>
RECURSIVE ToDecimal(_)
ToDecimal(n) ==
    IF n < 10 THEN <<Digits[n + 1]>>
    ELSE ToDecimal(n \div 10) \o <<Digits[(n % 10) + 1]>>

\* re.split(r'(?<=[.!?])\s+', s): a separator is a maximal whitespace run
\* that directly follows one of . ! ?
SepStarts(s) == {k \in 2..Len(s) : IsSpace(s[k]) /\ IsSentenceEnd(s[k - 1])}
RECURSIVE ReSplit(_)
ReSplit(s) ==
    IF SepStarts(s) = {} THEN <<s>>
    ELSE LET k == Min(SepStarts(s))
             rest == {j \in (k + 1)..Len(s) : ~IsSpace(s[j])}
             e == IF rest = {} THEN Len(s) + 1 ELSE Min(rest)
         IN  <<SubSeq(s, 1, k - 1)>> \o ReSplit(SubSeq(s, e, Len(s)))

----------------------------------------------------------------------------
(* Script segmentation of generate_video *)

\* f"[C{i+1}]:" for the 0-based slot i; Marker takes the 1-based number
Marker(n) == <<"[", "C">> \o ToDecimal(n) \o <<"]", ":">>

\* markers = [f"[C{i+1}]:" for i in range(len(image_rel_paths))]
Markers(n) == [i \in 1..n |-> Marker(i)]

\* variant: marker mode only when every marker is present
UsesMarkerMode_AllMarkers(script, markers) ==
    \A i \in 1..Len(markers) : Contains(script, markers[i])
\* any(m in script for m in markers)
UsesMarkerMode(script, markers) ==
    \E i \in 1..Len(markers) : Contains(script, markers[i])

\* variant: the text of a marker runs to the end of the script
MarkerPart_ToEnd(script, markers, i) ==
    LET m == markers[i]
        idx == Find(script, m, 0)
    IN  IF idx = -1 THEN <<" ">>
        ELSE LET part == Strip(Slice(script, idx + Len(m), Len(script)))
             IN  IF part # <<>> THEN part ELSE <<" ">>
\* text of one marker: from just after it to the next marker found after it
MarkerPart(script, markers, i) ==
    LET m == markers[i]
        idx == Find(script, m, 0)
    IN  IF idx = -1 THEN <<" ">>
        ELSE LET found == {Find(script, markers[x], idx + 1) :
                               x \in 1..Len(markers)} \ {-1}
                 nxt_idx == Min(found \cup {Len(script)})
                 part == Strip(Slice(script, idx + Len(m), nxt_idx))
             IN  IF part # <<>> THEN part ELSE <<" ">>

\* variant: nothing is appended for a marker that is absent
RECURSIVE MarkerTexts_SkipAbsentFrom(_, _, _)
MarkerTexts_SkipAbsentFrom(script, markers, i) ==
    IF i > Len(markers) THEN <<>>
    ELSE (IF Contains(script, markers[i])
          THEN <<MarkerPart(script, markers, i)>> ELSE <<>>)
         \o MarkerTexts_SkipAbsentFrom(script, markers, i + 1)
MarkerTexts_SkipAbsent(script, markers) ==
    MarkerTexts_SkipAbsentFrom(script, markers, 1)
\* the marker branch: one entry appended per marker, present or not
MarkerTexts(script, markers) ==
    [i \in 1..Len(markers) |-> MarkerPart(script, markers, i)]

\* variant: the script is split at every run of whitespace
RECURSIVE SplitWhitespace(_)
SplitWhitespace(s) ==
    LET ws == {k \in 1..Len(s) : IsSpace(s[k])}
    IN  IF ws = {} THEN <<s>>
        ELSE <<SubSeq(s, 1, Min(ws) - 1)>>
             \o SplitWhitespace(Strip(SubSeq(s, Min(ws), Len(s))))
Sentences_AnyWhitespace(script) == SplitWhitespace(Strip(script))
\* sentences = re.split(...); if not sentences: sentences = [script.strip()]
Sentences(script) ==
    LET sentences == ReSplit(Strip(script))
    IN  IF sentences = <<>> THEN <<Strip(script)>> ELSE sentences

\* parts[idx % len(parts)] += (s + " ") for idx, s in enumerate(sentences)
RECURSIVE Distribute(_, _, _)
Distribute(parts, sentences, idx) ==
    IF idx >= Len(sentences) THEN parts
    ELSE LET slot == (idx % Len(parts)) + 1
         IN  Distribute([parts EXCEPT ![slot] = @ \o sentences[idx + 1] \o <<" ">>],
                        sentences, idx + 1)

\* the fall-back branch
RoundRobinTexts(script, n) ==
    LET parts == Distribute([i \in 1..n |-> <<>>], Sentences(script), 0)
    IN  [i \in 1..n |-> IF Strip(parts[i]) # <<>> THEN Strip(parts[i]) ELSE <<" ">>]

----------------------------------------------------------------------------
(* Request inputs *)

\* sequences over S of length at most n
RECURSIVE SeqsUpTo(_, _)
SeqsUpTo(S, n) ==
    IF n = 0 THEN {<<>>}
    ELSE LET shorter == SeqsUpTo(S, n - 1)
         IN  shorter \cup {Append(q, x) : q \in {r \in shorter : Len(r) = n - 1}, x \in S}

W_Hi == <<"H", "i">>
W_Bye == <<"B", "y", "e">>

\* scripts submitted to the handler
HandlerScripts ==
    { <<>>,
      W_Hi,
      Marker(1) \o <<" ">> \o W_Hi \o <<" ">> \o Marker(2) \o <<" ">> \o W_Bye }

\* quality values submitted to the handler; None is a missing form field
HandlerQualities == { None, <<"4", "K">> }

Requests ==
    [ script : HandlerScripts,
      characters : SeqsUpTo(BOOLEAN, MaxChars),
      character_voice_files : SeqsUpTo(BOOLEAN, MaxVoices),
      user_voice : {"absent", "bad", "ok"},
      bg_music_file : {"absent", "ok"},
      quality : HandlerQualities ]

NoRequest ==
    [ script |-> <<>>, characters |-> <<>>, character_voice_files |-> <<>>,
      user_voice |-> "absent", bg_music_file |-> "absent", quality |-> None ]

\* request.form.get("quality", "HD")
Quality == IF request.quality = None THEN <<"H", "D">> ELSE request.quality

----------------------------------------------------------------------------
(* The job record *)

\* no UserVideo row exists yet
NoVideo == [status |-> "absent", file_path |-> None, meta_json |-> None]

\* UserVideo(..., status="rendering"); file_path and meta_json unset
NewVideo == [status |-> "rendering", file_path |-> None, meta_json |-> None]

\* out_rel = str(Path("outputs")/out_name)
OutRel == <<"outputs/video.mp4">>

\* the positions of the allowed files of an upload list, in order
RECURSIVE AllowedFrom(_, _, _)
AllowedFrom(files, kind, k) ==
    IF k > Len(files) THEN <<>>
    ELSE (IF files[k] THEN << <<kind, k>> >> ELSE <<>>) \o AllowedFrom(files, kind, k + 1)

\* [save_upload(f) for f in files if f and allowed_file(f.filename, ...)]
SavedUploads(files, kind) == AllowedFrom(files, kind, 1)

\* no body is returned while the handler runs
NoBody == [status |-> "", message |-> "", details |-> FALSE]

\* jsonify({"status": "error", "message": ..., "details": str(e)})
ErrorBody(msg, with_details) == [status |-> "error", message |-> msg, details |-> with_details]

\* final_video.audio before any audio is set
NoAudio == [narration |-> FALSE, bg |-> FALSE, bg_loops |-> 0, bg_duration |-> 0]

\* the slots a request or a segmentation can have, 0-based
MediaSlots == 0..(Max({MaxChars, MaxSlots}) - 1)

\* audio files of 0.3 s each and a background track of 0.07 s
LongMedia == [audio |-> [i \in MediaSlots |-> 30], bg |-> 7]

\* audio files of 0.05 s each and a background track of zero length
ShortMedia == [audio |-> [i \in MediaSlots |-> 5], bg |-> 0]

\* the files met by the requests of the whole handler
HandlerMedia == { LongMedia, ShortMedia }

----------------------------------------------------------------------------
(* generate_video, step by step *)

Init ==
    /\ pc = "idle"
    /\ media \in HandlerMedia
    /\ dur = 0
    /\ clips = <<>>
    /\ final_duration = 0
    /\ final_audio = NoAudio
    /\ bg_logged = FALSE
    /\ render_error = "none"
    /\ request = NoRequest
    /\ tts_rejects_blank \in BOOLEAN
    /\ video = NoVideo
    /\ db = NoVideo
    /\ image_rel_paths = <<>>
    /\ bg_music_rel = None
    /\ char_voice_files = <<>>
    /\ char_texts = <<>>
    /\ seg_mode = "none"
    /\ audio_rel_paths = <<>>
    /\ tts_calls = <<>>
    /\ bitrate = None
    /\ response = 0
    /\ body = NoBody

\* read the form, create the row with status "rendering" and commit it
Accept ==
    /\ pc = "idle"
    /\ \E r \in Requests : request' = r
    /\ video' = NewVideo
    /\ db' = NewVideo
    /\ pc' = "characters"
    /\ UNCHANGED <<render_vars, tts_rejects_blank, image_rel_paths, bg_music_rel, char_voice_files,
                   char_texts, seg_mode, audio_rel_paths, tts_calls, bitrate, response, body>>

\* save the uploaded character images that have an allowed extension
SaveCharacters ==
    /\ pc = "characters"
    /\ image_rel_paths' = SavedUploads(request.characters, "characters")
    /\ pc' = IF image_rel_paths' = <<>> THEN "no_images" ELSE "music"
    /\ UNCHANGED <<render_vars, request, tts_rejects_blank, video, db, bg_music_rel, char_voice_files,
                   char_texts, seg_mode, audio_rel_paths, tts_calls, bitrate, response, body>>

\* no image: the template has a thumbnail
UseThumbnail ==
    /\ pc = "no_images"
    /\ image_rel_paths' = << <<"thumbnail", 0>> >>
    /\ pc' = "music"
    /\ UNCHANGED <<render_vars, request, tts_rejects_blank, video, db, bg_music_rel, char_voice_files,
                   char_texts, seg_mode, audio_rel_paths, tts_calls, bitrate, response, body>>

\* no image, no thumbnail: the placeholder PNG is written
CreatePlaceholder ==
    /\ pc = "no_images"
    /\ image_rel_paths' = << <<"placeholder", 0>> >>
    /\ pc' = "music"
    /\ UNCHANGED <<render_vars, request, tts_rejects_blank, video, db, bg_music_rel, char_voice_files,
                   char_texts, seg_mode, audio_rel_paths, tts_calls, bitrate, response, body>>

\* no image, no thumbnail, and creating the placeholder raises: return 400
PlaceholderFails ==
    /\ pc = "no_images"
    /\ response' = 400
    /\ body' = ErrorBody("No characters uploaded and placeholder creation failed", FALSE)
    /\ pc' = "returned"
    /\ UNCHANGED <<render_vars, request, tts_rejects_blank, video, db, image_rel_paths, bg_music_rel,
                   char_voice_files, char_texts, seg_mode, audio_rel_paths, tts_calls,
                   bitrate>>

\* background music: the uploaded file, else the preset file when it exists
ResolveMusic ==
    /\ pc = "music"
    /\ \E preset_exists \in BOOLEAN :
         bg_music_rel' = IF request.bg_music_file = "ok" THEN <<"music", "upload">>
                         ELSE IF preset_exists THEN <<"music", "preset">>
                         ELSE None
    /\ pc' = "voices"
    /\ UNCHANGED <<render_vars, request, tts_rejects_blank, video, db, image_rel_paths,
                   char_voice_files, char_texts, seg_mode, audio_rel_paths, tts_calls,
                   bitrate, response, body>>

\* save the uploaded character voice files that have an allowed extension
SaveVoices ==
    /\ pc = "voices"
    /\ char_voice_files' = SavedUploads(request.character_voice_files, "user_voices")
    /\ pc' = "segment"
    /\ UNCHANGED <<render_vars, request, tts_rejects_blank, video, db, image_rel_paths, bg_music_rel,
                   char_texts, seg_mode, audio_rel_paths, tts_calls, bitrate, response, body>>

\* split the script into one text per slot
SegmentScript ==
    /\ pc = "segment"
    /\ LET markers == Markers(Len(image_rel_paths))
       IN  IF UsesMarkerMode(request.script, markers)
           THEN /\ char_texts' = MarkerTexts(request.script, markers)
                /\ seg_mode' = "marker"
           ELSE /\ char_texts' = RoundRobinTexts(request.script, Len(image_rel_paths))
                /\ seg_mode' = "round_robin"
    /\ pc' = "audio"
    /\ UNCHANGED <<render_vars, request, tts_rejects_blank, video, db, image_rel_paths, bg_music_rel,
                   char_voice_files, audio_rel_paths, tts_calls, bitrate, response, body>>

\* the 0-based slot the audio loop is at
Slot == Len(audio_rel_paths)

\* variant: the loop is left after the first slot
AfterAudio_FirstSlotOnly == "render"
\* after appending slot i's audio: next iteration, or leave the loop
AfterAudio == IF Slot + 1 < Len(image_rel_paths) THEN "audio" ELSE "render"

\* gTTS(text_for_char or " ", lang=lang) with
\* text_for_char = char_texts[i] if i < len(char_texts) else " "
TextForChar(i) ==
    LET text_for_char == IF i < Len(char_texts) THEN char_texts[i + 1] ELSE <<" ">>
    IN  IF text_for_char # <<>> THEN text_for_char ELSE <<" ">>

\* variant: the extension of the user_voice upload is not checked
HasUserVoice_AnyUpload == request.user_voice # "absent"
\* if "user_voice" in request.files and uv and allowed_file(uv.filename, ...)
HasUserVoice == request.user_voice = "ok"

\* i < len(char_voice_files): the uploaded voice of this index is used
UseCharVoice ==
    /\ pc = "audio"
    /\ Slot < Len(char_voice_files)
    /\ audio_rel_paths' = Append(audio_rel_paths, char_voice_files[Slot + 1])
    /\ pc' = AfterAudio
    /\ UNCHANGED <<render_vars, request, tts_rejects_blank, video, db, image_rel_paths, bg_music_rel,
                   char_voice_files, char_texts, seg_mode, tts_calls, bitrate, response, body>>

\* a generic user_voice upload is saved again and used for this slot
UseUserVoice ==
    /\ pc = "audio"
    /\ ~(Slot < Len(char_voice_files))
    /\ HasUserVoice
    /\ audio_rel_paths' = Append(audio_rel_paths, <<"user_voice", Slot>>)
    /\ pc' = AfterAudio
    /\ UNCHANGED <<render_vars, request, tts_rejects_blank, video, db, image_rel_paths, bg_music_rel,
                   char_voice_files, char_texts, seg_mode, tts_calls, bitrate, response, body>>

\* gTTS produces the audio of this slot
SynthesizeOk ==
    /\ pc = "audio"
    /\ ~(Slot < Len(char_voice_files))
    /\ ~HasUserVoice
    /\ ~(tts_rejects_blank /\ Strip(TextForChar(Slot)) = <<>>)
    /\ tts_calls' = Append(tts_calls, <<Slot, TextForChar(Slot), TRUE>>)
    /\ audio_rel_paths' = Append(audio_rel_paths, <<"audio", Slot>>)
    /\ pc' = AfterAudio
    /\ UNCHANGED <<render_vars, request, tts_rejects_blank, video, db, image_rel_paths, bg_music_rel,
                   char_voice_files, char_texts, seg_mode, bitrate, response, body>>

\* variant: a failed synthesis leaves a silent artifact and the loop goes on
SynthesizeFails_SilentArtifact ==
    /\ pc = "audio"
    /\ ~(Slot < Len(char_voice_files))
    /\ ~HasUserVoice
    /\ tts_calls' = Append(tts_calls, <<Slot, TextForChar(Slot), FALSE>>)
    /\ audio_rel_paths' = Append(audio_rel_paths, <<"audio", Slot>>)
    /\ pc' = AfterAudio
    /\ UNCHANGED <<render_vars, request, tts_rejects_blank, video, db, image_rel_paths,
                   bg_music_rel, char_voice_files, char_texts, seg_mode, bitrate,
                   response, body>>
\* gTTS raises: status "failed" is committed and 500 returned
SynthesizeFails ==
    /\ pc = "audio"
    /\ ~(Slot < Len(char_voice_files))
    /\ ~HasUserVoice
    /\ tts_calls' = Append(tts_calls, <<Slot, TextForChar(Slot), FALSE>>)
    /\ video' = [video EXCEPT !.status = "failed"]
    /\ db' = video'
    /\ response' = 500
    /\ body' = ErrorBody("TTS failed", TRUE)
    /\ pc' = "returned"
    /\ UNCHANGED <<render_vars, request, tts_rejects_blank, image_rel_paths, bg_music_rel,
                   char_voice_files, char_texts, seg_mode, audio_rel_paths, bitrate>>

----------------------------------------------------------------------------
(* render_video_multi_characters *)

\* n = min(len(image_rel_paths), len(audio_rel_paths))
RenderCount == IF Len(image_rel_paths) < Len(audio_rel_paths)
               THEN Len(image_rel_paths) ELSE Len(audio_rel_paths)

\* _abs_path(aud) exists: save_upload returns a path relative to BASE_DIR,
\* the gTTS branch appends "audio/<name>" while the file is in uploads/audio
AudioFileFound(ref) == ref[1] # "audio"

\* _abs_path(bg_music_rel) exists: the uploaded file is stored relative to
\* BASE_DIR, the preset as "music/<name>" while the file is in uploads/music
BgFileFound == bg_music_rel = <<"music", "upload">>

\* time is counted in hundredths of a second
NearZero == 10
FloorDuration == 200
Segment == 12

\* variant: the measured duration is passed on as it is
ClipDuration_NoFloor(measured) == measured
\* dur = audio_clip.duration if audio_clip.duration > 0.1 else 2.0
ClipDuration(measured) == IF measured > NearZero THEN measured ELSE FloorDuration

\* while t < duration - 1e-6 (1e-6 s is a ten-thousandth of a time unit)
LoopContinues(t, duration) == t * 10000 < duration * 10000 - 1

\* variant: every segment lasts the full segment length
RECURSIVE LipSyncLoop_NoTruncate(_, _, _, _)
LipSyncLoop_NoTruncate(t, toggle, segs, duration) ==
    IF LoopContinues(t, duration)
    THEN LipSyncLoop_NoTruncate(t + Segment, ~toggle,
             Append(segs, <<IF toggle THEN "small_movement" ELSE "base", Segment>>),
             duration)
    ELSE segs
\* the while loop of create_lip_sync_like_clip
RECURSIVE LipSyncLoop(_, _, _, _)
LipSyncLoop(t, toggle, segs, duration) ==
    IF LoopContinues(t, duration)
    THEN LET seg_d == Min({Segment, duration - t})
         IN  LipSyncLoop(t + seg_d, ~toggle,
                 Append(segs, <<IF toggle THEN "small_movement" ELSE "base", seg_d>>),
                 duration)
    ELSE segs

\* create_lip_sync_like_clip: the segments that are concatenated
CreateLipSyncLikeClip(duration) == LipSyncLoop(0, FALSE, <<>>, duration)

\* duration of concatenate_videoclips(segments)
RECURSIVE SegmentsDuration(_)
SegmentsDuration(segs) ==
    IF segs = <<>> THEN 0 ELSE Head(segs)[2] + SegmentsDuration(Tail(segs))

\* duration of concatenate_videoclips(clips)
RECURSIVE ClipsDuration(_)
ClipsDuration(cs) ==
    IF cs = <<>> THEN 0
    ELSE SegmentsDuration(Head(cs).segments) + ClipsDuration(Tail(cs))

\* variant: the extra copy is forgotten
LoopCount_NoExtra(total, bg) == total \div bg
\* n_loops = int(final_video.duration / bg_clip.duration) + 1
LoopCount(total, bg) == (total \div bg) + 1

\* clip.subclip(0, t_end): what can be heard of a clip of the given length
Subclip(length, t_end) == IF t_end <= length THEN t_end ELSE length

\* the background after looping and trimming: <<copies, duration>>
LoopThenTrim(total, bg) ==
    IF bg < total
    THEN <<LoopCount(total, bg), Subclip(LoopCount(total, bg) * bg, total)>>
    ELSE <<1, Subclip(bg, total)>>

\* the 0-based slot the render loop is at
RenderSlot == Len(clips)

\* audio_clip = AudioFileClip(audio_abs); dur = ...
MeasureAudio ==
    /\ pc = "render"
    /\ RenderSlot < RenderCount
    /\ AudioFileFound(audio_rel_paths[RenderSlot + 1])
    /\ dur' = ClipDuration(media.audio[RenderSlot])
    /\ pc' = "make_clip"
    /\ UNCHANGED <<handler_vars, media, clips, final_duration, final_audio, bg_logged,
                   render_error>>

\* clip = create_lip_sync_like_clip(img, dur); set_audio; clips.append(clip)
MakeClip ==
    /\ pc = "make_clip"
    /\ clips' = Append(clips, [slot |-> RenderSlot,
                               image |-> image_rel_paths[RenderSlot + 1],
                               audio |-> audio_rel_paths[RenderSlot + 1],
                               requested |-> dur,
                               segments |-> CreateLipSyncLikeClip(dur)])
    /\ pc' = "render"
    /\ UNCHANGED <<handler_vars, media, dur, final_duration, final_audio, bg_logged,
                   render_error>>

\* final_video = concatenate_videoclips(clips, method="compose")
ConcatClips ==
    /\ pc = "render"
    /\ RenderCount # 0
    /\ RenderSlot = RenderCount
    /\ final_duration' = ClipsDuration(clips)
    /\ final_audio' = [NoAudio EXCEPT !.narration = TRUE]
    /\ pc' = "mix"
    /\ UNCHANGED <<handler_vars, media, dur, clips, bg_logged, render_error>>

\* n == 0, or loading an audio, building a clip or concatenating raises
BuildClipsFails ==
    /\ pc \in {"render", "make_clip"}
    /\ render_error' = IF RenderCount = 0 THEN "no_inputs" ELSE "clips"
    /\ pc' = "except"
    /\ UNCHANGED <<handler_vars, media, dur, clips, final_duration, final_audio,
                   bg_logged>>

\* if bg_music_rel: the background is looped or trimmed to the timeline,
\* lowered and mixed under the narration
MixBackground ==
    /\ pc = "mix"
    /\ bg_music_rel = None \/ (BgFileFound /\ media.bg > 0)
    /\ final_audio' =
          IF bg_music_rel = None THEN final_audio
          ELSE [final_audio EXCEPT
                   !.bg = TRUE,
                   !.bg_loops = LoopThenTrim(final_duration, media.bg)[1],
                   !.bg_duration = LoopThenTrim(final_duration, media.bg)[2]]
    /\ pc' = "bitrate"
    /\ UNCHANGED <<handler_vars, media, dur, clips, final_duration, bg_logged,
                   render_error>>

\* variant: the failure of the background mixing leaves the render
MixBackgroundFails_Fatal ==
    /\ pc = "mix"
    /\ bg_music_rel # None
    /\ render_error' = "background"
    /\ pc' = "except"
    /\ UNCHANGED <<handler_vars, media, dur, clips, final_duration, final_audio,
                   bg_logged>>
\* the background file is missing, unreadable or of zero length, or mixing
\* raises: except Exception logs it and the timeline keeps its audio
MixBackgroundFails ==
    /\ pc = "mix"
    /\ bg_music_rel # None
    /\ bg_logged' = TRUE
    /\ pc' = "bitrate"
    /\ UNCHANGED <<handler_vars, media, dur, clips, final_duration, final_audio,
                   render_error>>

\* bitrate = "800k"; two overriding membership tests on quality.lower()
B800k == <<"8", "0", "0", "k">>
B2500k == <<"2", "5", "0", "0", "k">>
B8000k == <<"8", "0", "0", "0", "k">>
FullHdNames == { <<"f","u","l","l","h","d">>, <<"f","u","l","l"," ","h","d">>,
                 <<"1","0","8","0">>, <<"1","0","8","0","p">> }
UhdNames == { <<"4","k">>, <<"2","1","6","0">>, <<"2","1","6","0","p">> }
\* variant: the lookup compares the quality as sent, without lower()
BitrateFor_CaseSensitive(quality) ==
    LET b1 == IF quality # <<>> /\ quality \in FullHdNames THEN B2500k ELSE B800k
    IN  IF quality # <<>> /\ quality \in UhdNames THEN B8000k ELSE b1
BitrateFor(quality) ==
    LET b1 == IF quality # <<>> /\ Lower(quality) \in FullHdNames THEN B2500k ELSE B800k
    IN  IF quality # <<>> /\ Lower(quality) \in UhdNames THEN B8000k ELSE b1

SelectBitrate ==
    /\ pc = "bitrate"
    /\ bitrate' = BitrateFor(Quality)
    /\ pc' = "encode"
    /\ UNCHANGED <<render_vars, request, tts_rejects_blank, video, db, image_rel_paths, bg_music_rel,
                   char_voice_files, char_texts, seg_mode, audio_rel_paths, tts_calls,
                   response, body>>

\* final_video.write_videofile(...) succeeds
Encode ==
    /\ pc = "encode"
    /\ pc' = "file_path"
    /\ UNCHANGED <<render_vars, request, tts_rejects_blank, video, db, image_rel_paths, bg_music_rel,
                   char_voice_files, char_texts, seg_mode, audio_rel_paths, tts_calls,
                   bitrate, response, body>>

\* final_video.write_videofile(...) raises
EncodeFails ==
    /\ pc = "encode"
    /\ render_error' = "encode"
    /\ pc' = "except"
    /\ UNCHANGED <<handler_vars, media, dur, clips, final_duration, final_audio,
                   bg_logged>>

----------------------------------------------------------------------------
(* generate_video after the render call *)

\* video.file_path = out_rel
SetFilePath ==
    /\ pc = "file_path"
    /\ video' = [video EXCEPT !.file_path = OutRel]
    /\ pc' = "status"
    /\ UNCHANGED <<render_vars, request, tts_rejects_blank, db, image_rel_paths, bg_music_rel,
                   char_voice_files, char_texts, seg_mode, audio_rel_paths, tts_calls,
                   bitrate, response, body>>

\* video.status = "done"
SetDone ==
    /\ pc = "status"
    /\ video' = [video EXCEPT !.status = "done"]
    /\ pc' = "meta"
    /\ UNCHANGED <<render_vars, request, tts_rejects_blank, db, image_rel_paths, bg_music_rel,
                   char_voice_files, char_texts, seg_mode, audio_rel_paths, tts_calls,
                   bitrate, response, body>>

\* video.meta_json = json.dumps({...})
SetMeta ==
    /\ pc = "meta"
    /\ video' = [video EXCEPT !.meta_json = <<image_rel_paths, audio_rel_paths, Quality>>]
    /\ pc' = "commit"
    /\ UNCHANGED <<render_vars, request, tts_rejects_blank, db, image_rel_paths, bg_music_rel,
                   char_voice_files, char_texts, seg_mode, audio_rel_paths, tts_calls,
                   bitrate, response, body>>

\* db.session.commit() writes the three assignments
CommitDone ==
    /\ pc = "commit"
    /\ db' = video
    /\ pc' = "success"
    /\ UNCHANGED <<render_vars, request, tts_rejects_blank, video, image_rel_paths, bg_music_rel,
                   char_voice_files, char_texts, seg_mode, audio_rel_paths, tts_calls,
                   bitrate, response, body>>

\* db.session.commit() raises inside the try block: the session rolls back
\* and the object's pending attributes are expired to the committed row
CommitFails ==
    /\ pc = "commit"
    /\ video' = db
    /\ pc' = "except"
    /\ UNCHANGED <<render_vars, request, tts_rejects_blank, db, image_rel_paths, bg_music_rel,
                   char_voice_files, char_texts, seg_mode, audio_rel_paths, tts_calls,
                   bitrate, response, body>>

\* except Exception: video.status = "failed"; commit; return 500
RenderFailed ==
    /\ pc = "except"
    /\ video' = [video EXCEPT !.status = "failed"]
    /\ db' = video'
    /\ response' = 500
    /\ body' = ErrorBody("Render failed", TRUE)
    /\ pc' = "returned"
    /\ UNCHANGED <<render_vars, request, tts_rejects_blank, image_rel_paths, bg_music_rel,
                   char_voice_files, char_texts, seg_mode, audio_rel_paths, tts_calls,
                   bitrate>>

\* return jsonify({"status":"done", ...}), 200
ReturnDone ==
    /\ pc = "success"
    /\ response' = 200
    /\ body' = [NoBody EXCEPT !.status = "done"]
    /\ pc' = "returned"
    /\ UNCHANGED <<render_vars, request, tts_rejects_blank, video, db, image_rel_paths, bg_music_rel,
                   char_voice_files, char_texts, seg_mode, audio_rel_paths, tts_calls,
                   bitrate>>

Next ==
    \/ Accept
    \/ SaveCharacters
    \/ UseThumbnail
    \/ CreatePlaceholder
    \/ PlaceholderFails
    \/ ResolveMusic
    \/ SaveVoices
    \/ SegmentScript
    \/ UseCharVoice
    \/ UseUserVoice
    \/ SynthesizeOk
    \/ SynthesizeFails
    \/ MeasureAudio
    \/ MakeClip
    \/ ConcatClips
    \/ BuildClipsFails
    \/ MixBackground
    \/ MixBackgroundFails
    \/ SelectBitrate
    \/ Encode
    \/ EncodeFails
    \/ SetFilePath
    \/ SetDone
    \/ SetMeta
    \/ CommitDone
    \/ CommitFails
    \/ RenderFailed
    \/ ReturnDone

Spec == Init /\ [][Next]_vars

----------------------------------------------------------------------------
(* The segmentation on its own: generate_video stands at the segmentation  *)
(* step with n accepted images (or one stand-in image) and any script      *)

W_a_b == <<"a", " ", "b">>
W_Open == <<"[", "C">>

\* texts for marker scripts: non-empty, trimmed, free of the markers of any
\* slot count explored ([C9]: is the marker of no explored slot)
MarkerScriptTexts == { W_Hi, W_a_b, W_Open, Marker(9) }

RECURSIVE BuildMarkerScript(_, _)
\* "[C1]: text_1[C2]: text_2..." from slot k on
BuildMarkerScript(texts, k) ==
    IF k > Len(texts) THEN <<>>
    ELSE Marker(k) \o <<" ">> \o texts[k] \o BuildMarkerScript(texts, k + 1)

\* <<texts, script>> for every choice of 1..MaxSlots texts
MarkerScriptTable ==
    { <<t, BuildMarkerScript(t, 1)>> :
        t \in UNION { [1..n -> MarkerScriptTexts] : n \in 1..MaxSlots } }

\* sentences: end in . ! or ?, no whitespace directly after a . ! ? inside
SentenceTexts == { <<"a", ".">>, <<"H", "i", "!">>, <<"b", " ", "c", "?">> }
SentenceSeparators == { <<" ">>, <<"\n">>, <<" ", "\n", " ">> }

\* most sentences in a sentence script
MaxSentences == 3

RECURSIVE JoinWith(_, _)
JoinWith(items, sep) ==
    IF Len(items) = 0 THEN <<>>
    ELSE IF Len(items) = 1 THEN items[1]
    ELSE items[1] \o sep \o JoinWith(Tail(items), sep)

\* <<sentences, script>> for every choice of 1..MaxSentences sentences
SentenceScriptTable ==
    { <<t, JoinWith(t, sep)>> :
        t \in UNION { [1..n -> SentenceTexts] : n \in 1..MaxSentences },
        sep \in SentenceSeparators }

\* free-form scripts: up to MaxPieces pieces in any order
ScriptPieces ==
    { Marker(1), Marker(2), Marker(3), W_Hi, <<"a", ".">>, <<" ">>, <<"\n">>, W_Open }

RECURSIVE Concat(_)
Concat(pieces) == IF pieces = <<>> THEN <<>> ELSE Head(pieces) \o Concat(Tail(pieces))

SegScripts ==
    { Concat(q) : q \in SeqsUpTo(ScriptPieces, MaxPieces) }
    \cup { e[2] : e \in MarkerScriptTable }
    \cup { e[2] : e \in SentenceScriptTable }

\* the image lists the handler can hold when it reaches the segmentation
SegImageLists ==
    { [k \in 1..n |-> <<"characters", k>>] : n \in 1..MaxSlots }
    \cup { << <<"thumbnail", 0>> >>, << <<"placeholder", 0>> >> }

InitSeg ==
    /\ pc = "segment"
    /\ media = LongMedia
    /\ dur = 0
    /\ clips = <<>>
    /\ final_duration = 0
    /\ final_audio = NoAudio
    /\ bg_logged = FALSE
    /\ render_error = "none"
    /\ \E s \in SegScripts, imgs \in SegImageLists :
         /\ image_rel_paths = imgs
         /\ request = [NoRequest EXCEPT
                          !.script = s,
                          !.characters = IF imgs[1][1] = "characters"
                                         THEN [k \in 1..Len(imgs) |-> TRUE] ELSE <<>>]
    /\ tts_rejects_blank \in BOOLEAN
    /\ video = NewVideo
    /\ db = NewVideo
    /\ bg_music_rel = None
    /\ char_voice_files = <<>>
    /\ char_texts = <<>>
    /\ seg_mode = "none"
    /\ audio_rel_paths = <<>>
    /\ tts_calls = <<>>
    /\ bitrate = None
    /\ response = 0
    /\ body = NoBody

NextSeg == SegmentScript

SpecSeg == InitSeg /\ [][NextSeg]_vars

----------------------------------------------------------------------------
(* The bitrate lookup on its own: render_video_multi_characters stands at  *)
(* the lookup with any quality value of the request                        *)

\* how many leading characters of a quality value are tried in upper case
MaxCasePos == 2

Q_standard == <<"s","t","a","n","d","a","r","d">>
Q_full_hd == <<"f","u","l","l","-","h","d">>
Q_fullhd == <<"f","u","l","l","h","d">>
Q_full_space_hd == <<"f","u","l","l"," ","h","d">>
Q_1080 == <<"1","0","8","0">>
Q_1080p == <<"1","0","8","0","p">>
Q_4k == <<"4","k">>
Q_2160 == <<"2","1","6","0">>
Q_2160p == <<"2","1","6","0","p">>
Q_hd == <<"h","d">>
Q_ultra == <<"u","l","t","r","a">>
Q_4k_space == <<"4","k"," ">>

QualityNames ==
    { Q_standard, Q_full_hd, Q_fullhd, Q_full_space_hd, Q_1080, Q_1080p, Q_4k,
      Q_2160, Q_2160p, Q_hd, Q_ultra, Q_4k_space, <<>> }

\* a name with some of its characters in upper case
CaseVariants(name) ==
    { [k \in 1..Len(name) |-> IF k \in P THEN UpperChar(name[k]) ELSE name[k]] :
        P \in (SUBSET (1..MaxCasePos)) \cup {1..Len(name)} }

\* <<name, value sent>> for every name and every case variant of it
QualityTable ==
    UNION { { <<name, v>> : v \in CaseVariants(name) } : name \in QualityNames }

InitBitrate ==
    /\ pc = "bitrate"
    /\ \E q \in {e[2] : e \in QualityTable} \cup {None} :
         request = [NoRequest EXCEPT !.script = W_Hi, !.characters = <<TRUE>>,
                                     !.character_voice_files = <<TRUE>>,
                                     !.quality = q]
    /\ tts_rejects_blank \in BOOLEAN
    /\ video = NewVideo
    /\ db = NewVideo
    /\ image_rel_paths = << <<"characters", 1>> >>
    /\ bg_music_rel \in {None, <<"music", "preset">>}
    /\ char_voice_files = << <<"user_voices", 1>> >>
    /\ char_texts = <<W_Hi>>
    /\ seg_mode = "round_robin"
    /\ audio_rel_paths = << <<"user_voices", 1>> >>
    /\ tts_calls = <<>>
    /\ bitrate = None
    /\ response = 0
    /\ body = NoBody
    /\ media = LongMedia
    /\ dur = 30
    /\ clips = << [slot |-> 0, image |-> <<"characters", 1>>,
                   audio |-> <<"user_voices", 1>>, requested |-> 30,
                   segments |-> CreateLipSyncLikeClip(30)] >>
    /\ final_duration = 30
    /\ final_audio = [NoAudio EXCEPT !.narration = TRUE]
    /\ bg_logged = (bg_music_rel # None)
    /\ render_error = "none"

NextBitrate == SelectBitrate

SpecBitrate == InitBitrate /\ [][NextBitrate]_vars

----------------------------------------------------------------------------
(* The render on its own: generate_video stands at the render call with   *)
(* uploaded voices for every slot and audio files of any duration         *)

\* longest background track, in hundredths of a second
MaxBgDuration == 30

\* measured durations of an audio file: empty, exactly 0.1 s, just above
\* it (shorter than a segment), and two segments and a bit
AudioDurations == {0, NearZero, NearZero + 1, 2 * Segment + 1}

\* the audio files of n slots and the background track
RenderMedia(n) ==
    [ audio : { f \in [MediaSlots -> AudioDurations \cup {30}] :
                   \A i \in MediaSlots : i >= n => f[i] = 30 },
      bg : 0..MaxBgDuration ]

InitRender ==
    /\ pc = "render"
    /\ \E n \in 1..MaxChars :
         /\ \E upload \in {"absent", "ok"} :
              request = [NoRequest EXCEPT !.script = W_Hi,
                                          !.characters = [i \in 1..n |-> TRUE],
                                          !.character_voice_files = <<TRUE>>,
                                          !.user_voice = "ok",
                                          !.bg_music_file = upload]
         /\ image_rel_paths = SavedUploads(request.characters, "characters")
         /\ char_texts = RoundRobinTexts(W_Hi, n)
         /\ audio_rel_paths =
               [i \in 1..n |-> IF i = 1 THEN <<"user_voices", 1>>
                               ELSE <<"user_voice", i - 1>>]
         /\ media \in RenderMedia(n)
    /\ tts_rejects_blank = FALSE
    /\ video = NewVideo
    /\ db = NewVideo
    /\ bg_music_rel \in IF request.bg_music_file = "ok"
                        THEN { <<"music", "upload">> }
                        ELSE { None, <<"music", "preset">> }
    /\ bg_music_rel # <<"music", "upload">> => media.bg = 0
    /\ char_voice_files = << <<"user_voices", 1>> >>
    /\ seg_mode = "round_robin"
    /\ tts_calls = <<>>
    /\ bitrate = None
    /\ response = 0
    /\ body = NoBody
    /\ dur = 0
    /\ clips = <<>>
    /\ final_duration = 0
    /\ final_audio = NoAudio
    /\ bg_logged = FALSE
    /\ render_error = "none"

NextRender ==
    \/ MeasureAudio
    \/ MakeClip
    \/ ConcatClips
    \/ BuildClipsFails
    \/ MixBackground
    \/ MixBackgroundFails
    \/ SelectBitrate
    \/ Encode
    \/ EncodeFails
    \/ SetFilePath
    \/ SetDone
    \/ SetMeta
    \/ CommitDone
    \/ CommitFails
    \/ RenderFailed
    \/ ReturnDone

SpecRender == InitRender /\ [][NextRender]_vars

----------------------------------------------------------------------------
(* create_lip_sync_like_clip on its own, applied to every duration        *)

\* longest clip, in hundredths of a second
MaxLipDuration == 75

InitLip ==
    /\ pc = "make_clip"
    /\ dur \in 1..MaxLipDuration
    /\ request = [NoRequest EXCEPT !.script = W_Hi, !.characters = <<TRUE>>,
                                   !.character_voice_files = <<TRUE>>]
    /\ tts_rejects_blank = FALSE
    /\ video = NewVideo
    /\ db = NewVideo
    /\ image_rel_paths = << <<"characters", 1>> >>
    /\ bg_music_rel = None
    /\ char_voice_files = << <<"user_voices", 1>> >>
    /\ char_texts = <<W_Hi>>
    /\ seg_mode = "round_robin"
    /\ audio_rel_paths = << <<"user_voices", 1>> >>
    /\ tts_calls = <<>>
    /\ bitrate = None
    /\ response = 0
    /\ body = NoBody
    /\ media = [audio |-> [i \in MediaSlots |-> dur], bg |-> 0]
    /\ clips = <<>>
    /\ final_duration = 0
    /\ final_audio = NoAudio
    /\ bg_logged = FALSE
    /\ render_error = "none"

NextLip == MakeClip

SpecLip == InitLip /\ [][NextLip]_vars

----------------------------------------------------------------------------
(* Properties *)

Segmented == seg_mode # "none"
SlotCount == Len(image_rel_paths)
MarkerPresent(i) == Contains(request.script, Marker(i))

\* C1: every accepted job is 'done' or 'failed' when the request handling
\* ends; no return path leaves the job in 'rendering'.
C1_EndsDoneOrFailed ==
    pc = "returned" =>
        /\ video.status \in {"done", "failed"}
        /\ db.status \in {"done", "failed"}

\* C2: marker mode is used only when the script contains all N markers; a
\* script with some but not all markers is segmented round-robin.
C2_MarkerModeNeedsAllMarkers ==
    Segmented =>
        /\ seg_mode = "marker" => \A i \in 1..SlotCount : MarkerPresent(i)
        /\ ( (\E i \in 1..SlotCount : MarkerPresent(i))
             /\ ~(\A i \in 1..SlotCount : MarkerPresent(i)) ) => seg_mode = "round_robin"

\* C2 (amended): marker mode is used exactly when the script contains at
\* least one of the N markers; in marker mode a slot whose marker is absent
\* gets the single-space text; round-robin is used only with no marker.
C2_MarkerModeOnAnyMarker ==
    Segmented =>
        /\ seg_mode = "marker" <=> \E i \in 1..SlotCount : MarkerPresent(i)
        /\ seg_mode = "round_robin" <=> \A i \in 1..SlotCount : ~MarkerPresent(i)
        /\ seg_mode = "marker" =>
              \A i \in 1..SlotCount : ~MarkerPresent(i) => char_texts[i] = <<" ">>

C2_Witness ==
    /\ seg_mode = "marker"
    /\ SlotCount = 2
    /\ MarkerPresent(1)
    /\ ~MarkerPresent(2)
    /\ char_texts[1] = W_Hi
    /\ char_texts[2] = <<" ">>

\* what the claim C3 expects for a quality name given in lower case
ClaimedBitrate(name) ==
    IF name \in {Q_full_hd, Q_fullhd, Q_1080, Q_1080p} THEN B2500k
    ELSE IF name \in {Q_4k, Q_2160, Q_2160p} THEN B8000k
    ELSE B800k

\* the amended lookup: 'full hd' with a space, not 'full-hd'
AmendedBitrate(name) ==
    IF name \in {Q_fullhd, Q_full_space_hd, Q_1080, Q_1080p} THEN B2500k
    ELSE IF name \in {Q_4k, Q_2160, Q_2160p} THEN B8000k
    ELSE B800k

\* C3: the bitrate is a case-insensitive lookup: 'full-hd', 'fullhd', '1080',
\* '1080p' give 2500k; '4k', '2160', '2160p' give 8000k; every other value,
\* also an empty or missing one, gives 800k.
C3_BitrateLookup ==
    bitrate # None =>
        /\ request.quality = None => bitrate = B800k
        /\ \A e \in QualityTable :
              request.quality = e[2] => bitrate = ClaimedBitrate(e[1])

\* C3 (amended): as C3, with 'full hd' (a space) in the place of 'full-hd':
\* 'fullhd', 'full hd', '1080', '1080p' give 2500k, and 'full-hd' gives 800k
\* like every other value.
C3_BitrateLookupAmended ==
    bitrate # None =>
        /\ request.quality = None => bitrate = B800k
        /\ \A e \in QualityTable :
              request.quality = e[2] => bitrate = AmendedBitrate(e[1])

C3_Witness ==
    /\ pc = "encode"
    /\ request.quality = <<"F","U","L","L"," ","H","D">>
    /\ bitrate = B2500k

\* C4: the segmentation produces exactly N texts, one per slot, for every
\* script and every slot count N >= 1, in marker mode and in round-robin mode.
C4_OneTextPerSlot ==
    Segmented => /\ SlotCount >= 1
                 /\ Len(char_texts) = SlotCount

C4_Witness ==
    /\ seg_mode = "marker"
    /\ SlotCount = 3
    /\ MarkerPresent(3)
    /\ ~MarkerPresent(2)
    /\ Len(char_texts) = 3

\* C5: a script built as '[C1]: text_1[C2]: text_2 ... [CN]: text_N' from
\* non-empty trimmed texts that contain none of the N markers is segmented,
\* with N slots, back to [text_1, ..., text_N].
C5_MarkerRoundTrip ==
    Segmented =>
        \A e \in MarkerScriptTable :
            (request.script = e[2] /\ Len(e[1]) = SlotCount) => char_texts = e[1]

C5_Witness ==
    /\ Segmented
    /\ SlotCount = 3
    /\ request.script = BuildMarkerScript(<<W_a_b, W_Open, Marker(9)>>, 1)
    /\ char_texts = <<W_a_b, W_Open, Marker(9)>>

\* the lines of a script
RECURSIVE LinesOf(_)
LinesOf(s) ==
    LET nl == {k \in 1..Len(s) : s[k] = "\n"}
    IN  IF nl = {} THEN <<s>>
        ELSE <<SubSeq(s, 1, Min(nl) - 1)>> \o LinesOf(SubSeq(s, Min(nl) + 1, Len(s)))

\* C6: a script without markers that consists of exactly N non-empty lines
\* is segmented, with N slots, into line i (trimmed) alone in slot i.
C6_LinePerSlot ==
    LET lines == LinesOf(request.script)
    IN  ( /\ Segmented
          /\ \A i \in 1..SlotCount : ~MarkerPresent(i)
          /\ Len(lines) = SlotCount
          /\ \A i \in 1..Len(lines) : Strip(lines[i]) # <<>> )
        => \A i \in 1..SlotCount : char_texts[i] = Strip(lines[i])

\* items start, start + n, start + 2n, ...
RECURSIVE EveryNth(_, _, _)
EveryNth(items, start, n) ==
    IF start > Len(items) THEN <<>>
    ELSE <<items[start]>> \o EveryNth(items, start + n, n)

\* C6 (amended): the units are sentences, not lines: for a script without
\* markers made of sentences that each end in . ! or ? and are separated by
\* whitespace, sentence i (0-based) is appended to slot i mod N, the
\* sentences of a slot joined by one space, a slot with none holding a
\* single space; with exactly N sentences each is alone in its slot, in order.
C6_SentencePerSlot ==
    Segmented =>
        \A e \in SentenceScriptTable :
            request.script = e[2] =>
                /\ seg_mode = "round_robin"
                /\ \A j \in 1..SlotCount :
                      char_texts[j] = IF j > Len(e[1]) THEN <<" ">>
                                      ELSE JoinWith(EveryNth(e[1], j, SlotCount), <<" ">>)
                /\ Len(e[1]) = SlotCount => char_texts = e[1]

C6_Witness ==
    /\ Segmented
    /\ SlotCount = 2
    /\ request.script = <<"a", ".", "\n", "b", " ", "c", "?", "\n", "H", "i", "!">>
    /\ char_texts = << <<"a", ".", " ", "H", "i", "!">>, <<"b", " ", "c", "?">> >>

\* the gTTS calls made for the 0-based slot i
SynthCallsFor(i) == {k \in 1..Len(tts_calls) : tts_calls[k][1] = i}

\* slot i's audio is synthesized speech of slot i's text
IsSynthesized(i) ==
    /\ audio_rel_paths[i + 1] = <<"audio", i>>
    /\ \E k \in SynthCallsFor(i) : tts_calls[k] = <<i, char_texts[i + 1], TRUE>>

C8_TerminalStatus ==
    [][video.status \in {"done", "failed"} => video' = video]_vars

\* C9: the job record has a file_path only if its status is 'done'.
C9_FilePathOnlyWhenDone ==
    /\ video.file_path # None => video.status = "done"
    /\ db.file_path # None => db.status = "done"

\* C10: an empty script gives slot 0 a non-blank default utterance and every
\* other slot an empty text; with one image, no uploaded voice and a service
\* that refuses blank text, the text sent for slot 0 is that utterance and
\* the job ends 'done'.
C10_DefaultUtterance ==
    (Segmented /\ request.script = <<>>) =>
        /\ Strip(char_texts[1]) # <<>>
        /\ \A i \in 2..SlotCount : Strip(char_texts[i]) = <<>>
        /\ \A k \in SynthCallsFor(0) : Strip(tts_calls[k][2]) # <<>>
        /\ ( /\ SlotCount = 1
             /\ char_voice_files = <<>>
             /\ request.user_voice # "ok"
             /\ tts_rejects_blank
             /\ pc = "audio" ) => ENABLED SynthesizeOk

----------------------------------------------------------------------------
(* the synthesis failure path *)

\* the synthesis calls that raised
FailedSynthCalls == {k \in 1..Len(tts_calls) : ~tts_calls[k][3]}

\* nothing of render_video_multi_characters has run
RenderNotInvoked ==
    /\ clips = <<>>
    /\ dur = 0
    /\ final_duration = 0
    /\ final_audio = NoAudio
    /\ ~bg_logged
    /\ render_error = "none"
    /\ bitrate = None

\* C11: when speech synthesis fails for a slot that needs synthesized audio,
\* the job is 'failed' from that slot on, the failed call is the last thing
\* the audio loop did (no later slot gets an audio or a synthesis call), the
\* render is never invoked, and the caller gets an error result that carries
\* a failure detail.
C11_SynthesisFailureAborts ==
    FailedSynthCalls # {} =>
        /\ FailedSynthCalls = {Len(tts_calls)}
        /\ tts_calls[Len(tts_calls)][1] = Len(audio_rel_paths)
        /\ pc = "returned"
        /\ video.status = "failed"
        /\ db.status = "failed"
        /\ video.file_path = None
        /\ RenderNotInvoked
        /\ response = 500
        /\ body.status = "error"
        /\ body.details

\* synthesis succeeded for slot 0 and failed for slot 1 of three
C11_Witness ==
    /\ Len(image_rel_paths) = 3
    /\ Len(tts_calls) = 2
    /\ tts_calls[1][3]
    /\ ~tts_calls[2][3]
    /\ tts_calls[2][1] = 1
    /\ pc = "returned"
    /\ video.status = "failed"

----------------------------------------------------------------------------
(* the inputs of the render call *)

\* the positions of generate_video inside render_video_multi_characters
RenderPcs == {"render", "make_clip", "mix", "bitrate", "encode"}

\* slot i's audio reference is an uploaded voice or a synthesized artifact
IsSetAudio(i) ==
    \/ /\ i < Len(char_voice_files)
       /\ audio_rel_paths[i + 1] = char_voice_files[i + 1]
    \/ /\ request.user_voice = "ok"
       /\ audio_rel_paths[i + 1] = <<"user_voice", i>>
    \/ /\ audio_rel_paths[i + 1] = <<"audio", i>>
       /\ \E k \in SynthCallsFor(i) : tts_calls[k][3]

\* C12: whenever generate_video reaches the render call, audio_rel_paths has
\* one set reference per slot (as long as image_rel_paths, which is not
\* empty), each an uploaded voice or a synthesized artifact; the render's
\* min() keeps every slot, it builds a clip for every slot before it
\* concatenates, and it never raises its 'no images or audios' error.
C12_OneAudioPerSlot ==
    /\ pc \in RenderPcs =>
          /\ Len(image_rel_paths) >= 1
          /\ Len(audio_rel_paths) = Len(image_rel_paths)
          /\ \A i \in 0..(Len(audio_rel_paths) - 1) : IsSetAudio(i)
          /\ RenderCount = Len(image_rel_paths)
    /\ pc \in {"mix", "bitrate", "encode"} =>
          /\ Len(clips) = Len(image_rel_paths)
          /\ \A i \in 1..Len(clips) : clips[i].audio = audio_rel_paths[i]
    /\ render_error # "no_inputs"

\* three slots, two uploaded voices and a user_voice copy, all three built
C12_Witness ==
    /\ pc = "mix"
    /\ Len(image_rel_paths) = 3
    /\ Len(char_voice_files) = 2
    /\ audio_rel_paths[3] = <<"user_voice", 2>>
    /\ Len(clips) = 3

----------------------------------------------------------------------------
(* failures inside the render *)

\* the timeline carries the narration of its clips and nothing else
NarrationOnly == final_audio = [NoAudio EXCEPT !.narration = TRUE]

\* C13: a failure while loading or mixing the background audio never makes
\* the job fail: the step that logs it leaves the timeline with its
\* narration-only audio and everything else as it was and goes on to the
\* encode, exactly as the step without a background track does; an unreadable
\* or zero-length track is such a failure. A failure in clip building,
\* concatenation or the final encode does make the job 'failed'.
C13_BackgroundFailureNotFatal ==
    /\ [][ (pc = "mix" /\ pc' # "mix") =>
              /\ pc' = "bitrate"
              /\ render_error' = "none"
              /\ video' = video /\ db' = db
              /\ UNCHANGED <<clips, final_duration, response, body>>
              /\ bg_logged' => /\ NarrationOnly'
                               /\ final_audio' = final_audio
              /\ ( bg_music_rel # None /\ (~BgFileFound \/ media.bg = 0) )
                    => bg_logged' ]_vars
    /\ [](bg_logged => NarrationOnly /\ render_error \in {"none", "encode"})
    /\ []( (pc = "returned" /\ render_error # "none") =>
              /\ video.status = "failed"
              /\ db.status = "failed"
              /\ response = 500 )
    /\ [][ render_error' # render_error => pc' = "except" ]_vars

\* the uploaded background track was of zero length, the failure was logged
\* and the job ended 'done'
C13_Witness ==
    /\ pc = "returned"
    /\ bg_music_rel = <<"music", "upload">>
    /\ media.bg = 0
    /\ bg_logged
    /\ NarrationOnly
    /\ video.status = "done"
    /\ db.status = "done"
    /\ response = 200

----------------------------------------------------------------------------
(* the background track under the timeline *)

\* the background was mixed under a timeline of positive duration
BgMixed == pc \in {"bitrate", "encode"} /\ final_audio.bg

\* C14: for a timeline of duration T > 0 and a background of duration b > 0,
\* when b < T the background is repeated floor(T/b)+1 whole times, which
\* covers at least T, and is then trimmed to T; when b >= T it is trimmed
\* directly to T. In both cases the mixed background lasts exactly T.
C14_LoopThenTrim ==
    BgMixed =>
        LET T == final_duration
            b == media.bg
        IN  /\ T > 0 /\ b > 0
            /\ b < T => /\ final_audio.bg_loops = (T \div b) + 1
                        /\ final_audio.bg_loops * b >= T
            /\ b >= T => final_audio.bg_loops = 1
            /\ final_audio.bg_duration = T
            /\ final_audio.narration

\* a 0.07 s background under a 0.25 s timeline: four copies, trimmed to 0.25 s
C14_Witness ==
    /\ BgMixed
    /\ final_duration = 25
    /\ media.bg = 7
    /\ final_audio.bg_loops = 4
    /\ final_audio.bg_duration = 25

----------------------------------------------------------------------------
(* the clips of the render loop *)

\* C16: for every slot, the duration passed to the clip synthesizer is the
\* measured audio duration when that exceeds 0.1 s and 2.0 s otherwise; so
\* the synthesizer is never called with a zero or negative duration, every
\* slot yields a clip with at least one segment, and the clips are built and
\* concatenated in slot index order.
C16_MinimumDurationFloor ==
    /\ pc = "make_clip" =>
          /\ dur = IF media.audio[Len(clips)] > 10 THEN media.audio[Len(clips)] ELSE 200
          /\ dur > 0
    /\ \A i \in 1..Len(clips) :
          /\ clips[i].slot = i - 1
          /\ clips[i].image = image_rel_paths[i]
          /\ clips[i].audio = audio_rel_paths[i]
          /\ clips[i].requested =
                IF media.audio[i - 1] > 10 THEN media.audio[i - 1] ELSE 200
          /\ clips[i].requested > 0
          /\ Len(clips[i].segments) >= 1
    /\ pc \in {"mix", "bitrate", "encode"} =>
          /\ Len(clips) = Len(image_rel_paths)
          /\ final_duration > 0

\* three clips in slot order: an empty audio and one of exactly 0.1 s are
\* floored to 2.0 s, one of 0.11 s keeps its duration
C16_Witness ==
    /\ pc = "mix"
    /\ Len(clips) = 3
    /\ media.audio[0] = 0
    /\ media.audio[1] = 10
    /\ media.audio[2] = 11
    /\ clips[1].requested = 200
    /\ clips[2].requested = 200
    /\ clips[3].requested = 11
    /\ final_duration = 411

----------------------------------------------------------------------------
(* the segments of one clip *)

\* the sum of the segment lengths
RECURSIVE SumLengths(_)
SumLengths(segs) == IF segs = <<>> THEN 0 ELSE Head(segs)[2] + SumLengths(Tail(segs))

\* the segments partition [0, duration) as create_lip_sync_like_clip does
PartitionsDuration(segs, duration) ==
    LET n == Len(segs)
    IN  /\ n = (duration + 11) \div 12
        /\ \A i \in 1..(n - 1) : segs[i][2] = 12
        /\ n >= 1
        /\ segs[n][2] = duration - 12 * (n - 1)
        /\ segs[n][2] > 0 /\ segs[n][2] <= 12
        /\ SumLengths(segs) = duration
        /\ \A i \in 1..n :
              segs[i][1] = IF i % 2 = 1 THEN "base" ELSE "small_movement"
        /\ duration < 12 => segs = << <<"base", duration>> >>

\* C15: create_lip_sync_like_clip partitions [0, duration) into consecutive
\* segments for every duration > 0 (segment length 0.12 s = 12 units): it
\* terminates with ceil(duration/12) segments, every segment but the last
\* lasts exactly 12 and the last the remaining length in (0, 12], the lengths
\* sum to the duration, the variants alternate normal, shrunk, normal, ...
\* starting with normal, and a duration below 12 gives exactly one truncated
\* normal segment.
C15_LipSyncPartition ==
    /\ pc = "render" => Len(clips) = 1
    /\ \A i \in 1..Len(clips) :
          /\ clips[i].requested = dur
          /\ PartitionsDuration(clips[i].segments, clips[i].requested)

\* a clip of 0.25 s: two whole segments and one of 0.01 s
C15_Witness ==
    /\ pc = "render"
    /\ Len(clips) = 1
    /\ clips[1].requested = 25
    /\ clips[1].segments = << <<"base", 12>>, <<"small_movement", 12>>, <<"base", 1>> >>

============================================================================
